---- MODULE Spec2Model ----
(***************************************************************************)
(* A model of the frame-evaluation core of the lottie player:              *)
(*   - the repeater normalisation pass  (lottiemodel.cpp, 33-84)           *)
(*   - transform evaluation             (lottiemodel.cpp, 86-140)          *)
(*   - stroke dash expansion            (lottiemodel.cpp, 142-180)         *)
(*   - gradient stop merge              (lottiemodel.cpp, 202-265)         *)
(*   - the drawable's dirty flags and asynchronous rasterisation           *)
(*     (vdrawable.h)                                                       *)
(*   - Bezier subdivision               (vbezier.h, 60-128)                *)
(*   - the position-to-frame mapping    (lottieanimation.h, 193-205)       *)
(* Each part has its own specification; the variables of the other parts   *)
(* stay at their initial values.                                           *)
(***************************************************************************)
EXTENDS Integers, Sequences, FiniteSets, TLC

VARIABLES
    \* ---- scene tree (LOTData::mType, LOTGroupData::mChildren) ----
    mType,        \* node id -> LOTData::Type, a sequence indexed by node id
    mChildren,    \* node id -> sequence of child node ids
    declared,     \* mChildren as the parser left it (history, never read by the code)
    treePhase,    \* "parsing" | "processed"
    \* ---- gradient (LOTGradient) ----
    mGradient,    \* LottieGradient::mGradient at the requested frame: the flat buffer
    mColorPoints, \* LOTGradient::mColorPoints, -1 for legacy files
    stops,        \* the VGradientStops that populate fills
    opacityReads, \* the indices k of the reads opacityPtr[k] populate made (history)
    gradPhase,    \* "loaded" | "populated"
    \* ---- stroke dash (LOTStrokeData / LOTGStrokeData) ----
    mDash,        \* mDash.mDashArray[0 .. mDashCount-1]: a sequence of animatables
    dashArray,    \* the caller's float array that getDashInfo fills
    dashCall,     \* the last getDashInfo call: [who, frameNo, ret]
    \* ---- transform (LOTTransformData) ----
    transform,    \* the node: its animatables, mSeparate, mStaticMatrix, mCachedMatrix
    cached,       \* cacheMatrix has run
    xfCall,       \* the last matrix / matrixForRepeater call and the matrix returned
    \* ---- drawables (VDrawable) ----
    drawables,    \* the ids of the drawables of the frame
    drawable,     \* id -> the VDrawable's members
    drawCall,     \* the last VDrawable call: [op, id]
    \* ---- Bezier segment (VBezier) ----
    bezier,       \* the receiver: x1, y1 .. x4, y4
    left,         \* the VBezier that parameterSplitLeft writes
    firstHalf,    \* the VBezier pair that split writes
    secondHalf,
    bezCall,      \* the last VBezier call: [op, t, self], self the receiver before it
    \* ---- animation (lottie::Animation) ----
    animation,    \* the composition's first and last frame
    posCalls      \* the frameAtPos calls made, in order: [pos, frame]

treeVars == <<mType, mChildren, declared, treePhase>>
gradVars == <<mGradient, mColorPoints, stops, opacityReads, gradPhase>>
dashVars == <<mDash, dashArray, dashCall>>
xfVars == <<transform, cached, xfCall>>
drawVars == <<drawables, drawable, drawCall>>
bezVars == <<bezier, left, firstHalf, secondHalf, bezCall>>
posVars == <<animation, posCalls>>

vars == <<mType, mChildren, declared, treePhase,
          mGradient, mColorPoints, stops, opacityReads, gradPhase,
          mDash, dashArray, dashCall,
          transform, cached, xfCall,
          drawables, drawable, drawCall,
          bezier, left, firstHalf, secondHalf, bezCall,
          animation, posCalls>>

(***************************************************************************)
(* Repeater normalisation                                                  *)
(***************************************************************************)

\* Largest number of nodes the parser declares (the root layer included).
MaxNodes == 7

Layer == "Layer"
ShapeGroup == "ShapeGroup"
Repeater == "Repeater"
Shape == "Shape"

\* The node kinds the parser may declare below the root layer.
ChildTypes == {ShapeGroup, Repeater, Shape}

\* LOTCompositionData::mRootLayer
mRootLayer == 1

\* The scene tree as one value: the pass threads it through its recursion.
Tree(t, c) == [type |-> t, children |-> c]

RECURSIVE visitChildrenFrom(_, _, _)
RECURSIVE visit(_, _)

\* A slip in step 3: the moved children are not erased from obj.
moveWithoutErase(s, obj, i) ==
    LET repeater == s.children[obj][i]
        shapeGroup == Len(s.type) + 1
        moved == SubSeq(s.children[obj], 1, i - 1)
        c1 == Append(s.children, moved)
    IN  Tree(Append(s.type, ShapeGroup),
             [c1 EXCEPT ![repeater] = Append(c1[repeater], shapeGroup)])

\* A slip in step 2: the children are moved to the group back to front.
moveInReverse(s, obj, i) ==
    LET repeater == s.children[obj][i]
        shapeGroup == Len(s.type) + 1
        list == s.children[obj]
        moved == [k \in 1 .. i - 1 |-> list[i - k]]
        rest == SubSeq(list, i, Len(list))
        c1 == Append(s.children, moved)
        c2 == [c1 EXCEPT ![obj] = rest,
                         ![repeater] = Append(c1[repeater], shapeGroup)]
    IN  Tree(Append(s.type, ShapeGroup), c2)

\* Steps 1-5 of the Repeater branch: the children in front of the repeater at
\* reverse position i (list index i) move, in order, to a fresh ShapeGroup; they
\* are erased from obj; the group is pushed onto the repeater's children.
moveToShapeGroup(s, obj, i) ==
    LET repeater == s.children[obj][i]
        shapeGroup == Len(s.type) + 1
        list == s.children[obj]
        moved == SubSeq(list, 1, i - 1)
        rest == SubSeq(list, i, Len(list))
        c1 == Append(s.children, moved)
        c2 == [c1 EXCEPT ![obj] = rest,
                         ![repeater] = Append(c1[repeater], shapeGroup)]
    IN  Tree(Append(s.type, ShapeGroup), c2)

\* The loop of visitChildren, at reverse iterator position i (i = 0 is rend()).
visitChildrenFrom(s, obj, i) ==
    IF i = 0 THEN s
    ELSE LET child == s.children[obj][i]
         IN  IF s.type[child] = Repeater
             THEN LET s1 == moveToShapeGroup(s, obj, i)
                  IN  visitChildrenFrom(s1, Len(s1.type), Len(s1.children[Len(s1.type)]))
             ELSE visitChildrenFrom(visit(s, child), obj, i - 1)

visitChildren(s, obj) == visitChildrenFrom(s, obj, Len(s.children[obj]))

\* A slip in the switch: the ShapeGroup case is missing.
visitLayersOnly(s, obj) ==
    IF s.type[obj] \in {Repeater, Layer}
    THEN visitChildren(s, obj)
    ELSE s

visit(s, obj) ==
    IF s.type[obj] \in {Repeater, ShapeGroup, Layer}
    THEN visitChildren(s, obj)
    ELSE s

\* The nodes on the path from the root to the last declared node: the groups
\* the parser still has open.
RECURSIVE OpenGroups(_, _)
OpenGroups(c, n) ==
    {n} \cup (IF Len(c[n]) = 0 THEN {} ELSE OpenGroups(c, c[n][Len(c[n])]))

TreeStart ==
    /\ mType = <<Layer>>
    /\ mChildren = << <<>> >>
    /\ declared = << <<>> >>
    /\ treePhase = "parsing"

\* The parser declares one more node, depth first: the child of a group that is
\* still open. A repeater is declared without children.
ParseChild ==
    /\ treePhase = "parsing"
    /\ Len(mType) < MaxNodes
    /\ \E parent \in OpenGroups(mChildren, mRootLayer), t \in ChildTypes :
         /\ mType[parent] \in {Layer, ShapeGroup}
         /\ mType' = Append(mType, t)
         /\ mChildren' = Append([mChildren EXCEPT ![parent] = Append(@, Len(mType) + 1)], <<>>)
    /\ declared' = mChildren'
    /\ UNCHANGED <<treePhase, gradVars, dashVars, xfVars, drawVars, bezVars, posVars>>

\* LOTCompositionData::processRepeaterObjects, run once after parsing.
processRepeaterObjects ==
    /\ treePhase = "parsing"
    /\ LET s == visit(Tree(mType, mChildren), mRootLayer)
       IN  /\ mType' = s.type
           /\ mChildren' = s.children
    /\ treePhase' = "processed"
    /\ UNCHANGED <<declared, gradVars, dashVars, xfVars, drawVars, bezVars, posVars>>

TreeNext == ParseChild \/ processRepeaterObjects


(***************************************************************************)
(* Gradient stop merge                                                     *)
(*                                                                         *)
(* A float of the buffer is an integer count of 1/Unit; a computed float   *)
(* is an exact fraction [n, d] of such counts, d = 0 standing for the      *)
(* non-finite results of a division by zero (n = 0: NaN, n = 1: +inf,      *)
(* n = -1: -inf). Rounding is not modelled.                                *)
(***************************************************************************)

\* 1.0 is Unit counts; the positions drawn run over 0 .. Unit.
Unit == 4
\* Largest number of color quadruples and of opacity pairs in a buffer.
MaxColors == 2
MaxOpacity == 3

Sign(x) == IF x > 0 THEN 1 ELSE IF x < 0 THEN -1 ELSE 0
Abs(x) == IF x < 0 THEN -x ELSE x

RECURSIVE Gcd(_, _)
Gcd(a, b) == IF b = 0 THEN a ELSE Gcd(b, a % b)

\* The float n/d, d # 0, in lowest terms with a positive denominator.
Frac(n, d) ==
    LET g == Gcd(Abs(n), Abs(d))
    IN  [n |-> (Sign(d) * n) \div g, d |-> Abs(d) \div g]

Float(x) == [n |-> x, d |-> 1]
NaN == [n |-> 0, d |-> 0]
Inf(sign) == [n |-> sign, d |-> 0]

\* progress = (colorStop - stop1) / (stop2 - stop1);
\* opacity  = op1 + progress * (op2 - op1), in IEEE arithmetic without rounding.
interpolate(colorStop, stop1, op1, stop2, op2) ==
    IF stop2 - stop1 # 0
    THEN Frac(op1 * (stop2 - stop1) + (colorStop - stop1) * (op2 - op1), stop2 - stop1)
    ELSE LET progress == Sign(colorStop - stop1)
         IN  IF progress = 0 \/ op2 - op1 = 0
             THEN NaN
             ELSE Inf(progress * Sign(op2 - op1))

\* std::make_pair(position, color.toColor(opacity)): the stop keeps the position,
\* the color and the opacity handed to toColor.
Stop(position, color, opacity) == [pos |-> position, color |-> color, opacity |-> opacity]

\* int colorPoints = mColorPoints; if (colorPoints == -1) colorPoints = size / 4;
colorPointsOf(buf, declaredPoints) ==
    IF declaredPoints = -1 THEN Len(buf) \div 4 ELSE declaredPoints

opacityArraySizeOf(buf, colorPoints) == Len(buf) - colorPoints * 4

\* ptr[k] for a pointer at offset ptr of the buffer.
At(buf, ptr, k) == buf[ptr + k + 1]

\* opacityPtr[k]: opacityPtr = data() + colorPoints * 4. A negative k reads the
\* floats in front of the opacity stops, which belong to the same buffer.
OpacityAt(buf, colorPoints, k) == buf[colorPoints * 4 + k + 1]

\* The branch "already reached the end" (j == opacityArraySize).
reachedEndStop(buf, colorPoints, colorStop, color, j) ==
    LET stop1 == OpacityAt(buf, colorPoints, j - 4)
        op1 == OpacityAt(buf, colorPoints, j - 3)
        stop2 == OpacityAt(buf, colorPoints, j - 2)
        op2 == OpacityAt(buf, colorPoints, j - 1)
    IN  IF colorStop > stop2
        THEN Stop(colorStop, color, Float(op2))
        ELSE Stop(colorStop, color, interpolate(colorStop, stop1, op1, stop2, op2))

\* A slip in the scan: the comparison of opacity stop and color stop is reversed.
RECURSIVE opacityScanReversed(_, _, _, _, _, _)
opacityScanReversed(buf, colorPoints, colorStop, color, j, out) ==
    IF j >= opacityArraySizeOf(buf, colorPoints)
    THEN [j |-> j, stops |-> out]
    ELSE LET opacityStop == OpacityAt(buf, colorPoints, j)
         IN  IF opacityStop > colorStop
             THEN opacityScanReversed(buf, colorPoints, colorStop, color, j + 2,
                      Append(out, Stop(opacityStop, color,
                                       Float(OpacityAt(buf, colorPoints, j + 1)))))
             ELSE [j |-> j + 2,
                   stops |-> Append(out, Stop(colorStop, color,
                                    Float(OpacityAt(buf, colorPoints, j + 1))))]

\* The inner loop "for (; j < opacityArraySize; j += 2)": the opacity cursor and
\* the stops when the loop is left.
RECURSIVE opacityScan(_, _, _, _, _, _)
opacityScan(buf, colorPoints, colorStop, color, j, out) ==
    IF j >= opacityArraySizeOf(buf, colorPoints)
    THEN [j |-> j, stops |-> out]
    ELSE LET opacityStop == OpacityAt(buf, colorPoints, j)
         IN  IF opacityStop < colorStop
             THEN \* add a color using opacity stop
                  opacityScan(buf, colorPoints, colorStop, color, j + 2,
                      Append(out, Stop(opacityStop, color,
                                       Float(OpacityAt(buf, colorPoints, j + 1)))))
             ELSE \* add a color using color stop
                  IF j = 0
                  THEN [j |-> j + 2,
                        stops |-> Append(out, Stop(colorStop, color,
                                         Float(OpacityAt(buf, colorPoints, j + 1))))]
                  ELSE [j |-> j + 2,
                        stops |-> Append(out, Stop(colorStop, color,
                            interpolate(colorStop,
                                        OpacityAt(buf, colorPoints, j - 2),
                                        OpacityAt(buf, colorPoints, j - 1),
                                        OpacityAt(buf, colorPoints, j),
                                        OpacityAt(buf, colorPoints, j + 1))))]

\* The outer loop "for (int i = 0; i < colorPoints; i++)" with its cursors ptr
\* (offset of the color stop read) and j (opacity cursor). The "continue" of the
\* reached-the-end branch skips "ptr += 4".
RECURSIVE populateLoop(_, _, _, _, _, _)
populateLoop(buf, colorPoints, i, ptr, j, out) ==
    IF i >= colorPoints THEN out
    ELSE LET colorStop == At(buf, ptr, 0)
             color == <<At(buf, ptr, 1), At(buf, ptr, 2), At(buf, ptr, 3)>>
         IN  IF opacityArraySizeOf(buf, colorPoints) # 0
             THEN IF j = opacityArraySizeOf(buf, colorPoints)
                  THEN populateLoop(buf, colorPoints, i + 1, ptr, j,
                           Append(out, reachedEndStop(buf, colorPoints, colorStop, color, j)))
                  ELSE LET r == opacityScan(buf, colorPoints, colorStop, color, j, out)
                       IN  populateLoop(buf, colorPoints, i + 1, ptr + 4, r.j, r.stops)
             ELSE populateLoop(buf, colorPoints, i + 1, ptr + 4, j,
                      Append(out, Stop(colorStop, color, Float(Unit))))

\* A slip in the outer loop: it starts at the second color stop.
populateFromSecond(buf, declaredPoints) ==
    populateLoop(buf, colorPointsOf(buf, declaredPoints), 1, 4, 0, <<>>)

\* LOTGradient::populate: stops.clear(), then the loop.
populate(buf, declaredPoints) ==
    populateLoop(buf, colorPointsOf(buf, declaredPoints), 0, 0, 0, <<>>)

\* ---- the reads of the opacity stops ----

\* The indices k of the reads opacityPtr[k] of the inner loop started at j,
\* added to reads.
RECURSIVE opacityScanReads(_, _, _, _, _)
opacityScanReads(buf, colorPoints, colorStop, j, reads) ==
    IF j >= opacityArraySizeOf(buf, colorPoints)
    THEN reads
    ELSE IF OpacityAt(buf, colorPoints, j) < colorStop
         THEN opacityScanReads(buf, colorPoints, colorStop, j + 2, reads \cup {j, j + 1})
         ELSE IF j = 0
              THEN reads \cup {j, j + 1}
              ELSE reads \cup {j - 2, j - 1, j, j + 1}

\* The same for the outer loop; the cursors move as in populateLoop.
RECURSIVE populateReadsLoop(_, _, _, _, _, _)
populateReadsLoop(buf, colorPoints, i, ptr, j, reads) ==
    IF i >= colorPoints THEN reads
    ELSE LET colorStop == At(buf, ptr, 0)
             color == <<At(buf, ptr, 1), At(buf, ptr, 2), At(buf, ptr, 3)>>
         IN  IF opacityArraySizeOf(buf, colorPoints) # 0
             THEN IF j = opacityArraySizeOf(buf, colorPoints)
                  THEN populateReadsLoop(buf, colorPoints, i + 1, ptr, j,
                           reads \cup {j - 4, j - 3, j - 2, j - 1})
                  ELSE populateReadsLoop(buf, colorPoints, i + 1, ptr + 4,
                           opacityScan(buf, colorPoints, colorStop, color, j, <<>>).j,
                           opacityScanReads(buf, colorPoints, colorStop, j, reads))
             ELSE populateReadsLoop(buf, colorPoints, i + 1, ptr + 4, j, reads)

populateReads(buf, declaredPoints) ==
    populateReadsLoop(buf, colorPointsOf(buf, declaredPoints), 0, 0, 0, {})

\* ---- the buffers a well-formed file can hold ----

Ascending(q) == \A k \in 1 .. Len(q) - 1 : q[k] <= q[k + 1]

Positions == 0 .. Unit
Opacities == {0, Unit}
\* The color stops of a buffer share one gray color: red = green = blue.
Channels == {0, Unit}

AscendingSeqs(n) == { q \in [1 .. n -> Positions] : Ascending(q) }

\* colors quadruples (position, r, g, b), then pairs (position, opacity).
RECURSIVE Flatten(_)
Flatten(q) == IF q = <<>> THEN <<>> ELSE Head(q) \o Flatten(Tail(q))

Buffer(cpos, cval, opos, oval) ==
    Flatten([k \in 1 .. Len(cpos) |-> <<cpos[k], cval, cval, cval>>])
    \o Flatten([k \in 1 .. Len(opos) |-> <<opos[k], oval[k]>>])

Buffers(c, p) ==
    { Buffer(cpos, cval, opos, oval) :
        cpos \in AscendingSeqs(c), cval \in Channels,
        opos \in AscendingSeqs(p), oval \in [1 .. p -> Opacities] }

GradStart ==
    /\ mGradient = <<>>
    /\ mColorPoints = 0
    /\ stops = <<>>
    /\ opacityReads = {}
    /\ gradPhase = "loaded"

GradInit ==
    /\ \E c \in 0 .. MaxColors, p \in 0 .. MaxOpacity :
         /\ mGradient \in Buffers(c, p)
         /\ mColorPoints \in {c, -1}
    /\ stops = <<>>
    /\ opacityReads = {}
    /\ gradPhase = "loaded"

\* LOTGradient::populate(stops, frameNo)
Populate ==
    /\ gradPhase = "loaded"
    /\ stops' = populate(mGradient, mColorPoints)
    /\ opacityReads' = populateReads(mGradient, mColorPoints)
    /\ gradPhase' = "populated"
    /\ UNCHANGED <<mGradient, mColorPoints, treeVars, dashVars, xfVars, drawVars, bezVars, posVars>>

GradNext == Populate

(***************************************************************************)
(* Animatable properties                                                   *)
(***************************************************************************)

\* Frames run over 0 .. MaxFrame.
MaxFrame == 1
Frames == 0 .. MaxFrame

\* LOTAnimatable<T>::value(frameNo): an animatable is the sequence of its
\* interpolated values, one per frame.
value(animatable, frameNo) == animatable[frameNo + 1]

\* An animatable that holds v on every frame.
Constant(v) == [f \in 1 .. MaxFrame + 1 |-> v]
IsConstant(animatable) == \A f \in Frames : value(animatable, f) = value(animatable, 0)

(***************************************************************************)
(* Stroke dash expansion                                                   *)
(***************************************************************************)

\* Largest mDashCount drawn.
MaxDash == 3

\* for (i = 0; i < count; i++) array[i] = mDash.mDashArray[i].value(frameNo);
copyDashes(dash, frameNo, array, count) ==
    [k \in 1 .. Len(array) |-> IF k <= count THEN value(dash[k], frameNo) ELSE array[k]]

\* A slip in the even case: the entries are copied without the fabricated gap.
getDashInfoNoGap(dash, frameNo, array) ==
    [ret |-> Len(dash), array |-> copyDashes(dash, frameNo, array, Len(dash))]

\* LOTStrokeData::getDashInfo: the return value and the array as it leaves it.
\* The C++ index i is the sequence index i + 1.
LOTStrokeData_getDashInfo(dash, frameNo, array) ==
    LET mDashCount == Len(dash)
    IN  IF mDashCount = 0 THEN [ret |-> 0, array |-> array]
        ELSE IF mDashCount % 2 = 1
        THEN [ret |-> mDashCount, array |-> copyDashes(dash, frameNo, array, mDashCount)]
        ELSE LET i == mDashCount - 1
                 a1 == copyDashes(dash, frameNo, array, mDashCount - 1)
                 a2 == [a1 EXCEPT ![i + 1] = a1[i]]
                 a3 == [a2 EXCEPT ![i + 2] = value(dash[i + 1], frameNo)]
             IN  [ret |-> mDashCount + 1, array |-> a3]

\* LOTGStrokeData::getDashInfo: the same function on the gradient stroke.
LOTGStrokeData_getDashInfo(dash, frameNo, array) ==
    LET mDashCount == Len(dash)
    IN  IF mDashCount = 0 THEN [ret |-> 0, array |-> array]
        ELSE IF mDashCount % 2 = 1
        THEN [ret |-> mDashCount, array |-> copyDashes(dash, frameNo, array, mDashCount)]
        ELSE LET i == mDashCount - 1
                 a1 == copyDashes(dash, frameNo, array, mDashCount - 1)
                 a2 == [a1 EXCEPT ![i + 1] = a1[i]]
                 a3 == [a2 EXCEPT ![i + 2] = value(dash[i + 1], frameNo)]
             IN  [ret |-> mDashCount + 1, array |-> a3]

\* Dash and gap lengths a file declares.
DashLengths == {2, 4}
DashAnimatables == [1 .. MaxFrame + 1 -> DashLengths]

\* The array before a call: no entry has been written (the code never reads one
\* it has not written).
Unwritten == -1
EmptyArray == [k \in 1 .. MaxDash + 1 |-> Unwritten]

NoDashCall == [who |-> "none", frameNo |-> 0, ret |-> 0]

DashStart ==
    /\ mDash = <<>>
    /\ dashArray = EmptyArray
    /\ dashCall = NoDashCall

DashInit ==
    /\ \E n \in 0 .. MaxDash : mDash \in [1 .. n -> DashAnimatables]
    /\ dashArray = EmptyArray
    /\ dashCall = NoDashCall

\* A renderer asks a solid stroke for its dashes at frameNo, with a fresh array.
StrokeGetDashInfo ==
    /\ \E frameNo \in Frames :
         LET r == LOTStrokeData_getDashInfo(mDash, frameNo, EmptyArray)
         IN  /\ dashArray' = r.array
             /\ dashCall' = [who |-> "LOTStrokeData", frameNo |-> frameNo, ret |-> r.ret]
    /\ UNCHANGED <<mDash, treeVars, gradVars, xfVars, drawVars, bezVars, posVars>>

\* The same for a gradient stroke.
GStrokeGetDashInfo ==
    /\ \E frameNo \in Frames :
         LET r == LOTGStrokeData_getDashInfo(mDash, frameNo, EmptyArray)
         IN  /\ dashArray' = r.array
             /\ dashCall' = [who |-> "LOTGStrokeData", frameNo |-> frameNo, ret |-> r.ret]
    /\ UNCHANGED <<mDash, treeVars, gradVars, xfVars, drawVars, bezVars, posVars>>

DashNext == StrokeGetDashInfo \/ GStrokeGetDashInfo

(***************************************************************************)
(* Transform evaluation                                                    *)
(*                                                                         *)
(* A VMatrix is the chain of calls made on a fresh matrix, in call order:  *)
(* the code composes it by m.translate(..).rotate(..).scale(..). Angles,   *)
(* positions and anchors are integers; a scale factor is an exact fraction.*)
(***************************************************************************)

\* Largest copy index handed to matrixForRepeater.
MaxCopies == 2

\* VMatrix m;
Identity == <<>>
\* VMatrix::translate(VPointF), rotate(float, Axis), scale(VPointF)
translate(m, p) == Append(m, [op |-> "translate", by |-> p, axis |-> "-"])
rotate(m, angle, axis) == Append(m, [op |-> "rotate", by |-> angle, axis |-> axis])
scale(m, factor) == Append(m, [op |-> "scale", by |-> factor, axis |-> "-"])

\* VPointF arithmetic
PointTimes(p, k) == <<p[1] * k, p[2] * k>>
PointNeg(p) == <<-p[1], -p[2]>>
\* mScale.value(frameNo) / 100.f
PointOver100(p) == <<Frac(p[1], 100), Frac(p[2], 100)>>

RECURSIVE IntPow(_, _)
IntPow(b, e) == IF e = 0 THEN 1 ELSE b * IntPow(b, e - 1)
\* std::pow(x, multiplier) for a fraction x and a copy index
pow(x, e) == Frac(IntPow(x.n, e), IntPow(x.d, e))

\* LOTAnimatable<VPointF>::angle(frameNo): the direction of motion of the
\* position, 0 for a position that does not move.
angle(animatable, frameNo) == IF IsConstant(animatable) THEN 0 ELSE 45

\* std::unique_ptr<LOT3DData> m3D: the empty sequence is the null pointer, a
\* sequence of one LOT3DData the object it owns.
NoM3D == <<>>
\* bool ddd() const { return m3D ? true : false; }
ddd(t) == t.m3D # NoM3D

\* A slip in matrixForRepeater: the scale is multiplied instead of raised.
matrixForRepeaterLinearScale(t, frameNo, multiplier) ==
    LET s == PointOver100(value(t.mScale, frameNo))
        scaled == <<Frac(s[1].n * multiplier, s[1].d), Frac(s[2].n * multiplier, s[2].d)>>
    IN  translate(scale(rotate(translate(Identity,
            PointTimes(value(t.mPosition, frameNo), multiplier)),
            value(t.mRotation, frameNo) * multiplier, "Z"),
            scaled),
            value(t.mAnchor, frameNo))

\* LOTTransformData::matrixForRepeater
matrixForRepeater(t, frameNo, multiplier) ==
    LET s == PointOver100(value(t.mScale, frameNo))
        powered == <<pow(s[1], multiplier), pow(s[2], multiplier)>>
    IN  translate(scale(rotate(translate(Identity,
            PointTimes(value(t.mPosition, frameNo), multiplier)),
            value(t.mRotation, frameNo) * multiplier, "Z"),
            powered),
            value(t.mAnchor, frameNo))

\* LOTTransformData::computeMatrix
computeMatrix(t, frameNo, autoOrient) ==
    LET position == IF t.mSeparate
                    THEN <<value(t.mX, frameNo), value(t.mY, frameNo)>>
                    ELSE value(t.mPosition, frameNo)
        orient == IF autoOrient THEN angle(t.mPosition, frameNo) ELSE 0
        m1 == rotate(rotate(translate(Identity, position),
                            value(t.mRotation, frameNo), "Z"),
                     orient, "Z")
        m2 == IF ddd(t)
              THEN rotate(rotate(rotate(m1, value(t.m3D[1].mRz, frameNo), "Z"),
                                 value(t.m3D[1].mRy, frameNo), "Y"),
                          value(t.m3D[1].mRx, frameNo), "X")
              ELSE m1
    IN  translate(scale(m2, PointOver100(value(t.mScale, frameNo))),
                  PointNeg(value(t.mAnchor, frameNo)))

\* A slip in matrix: the test of mStaticMatrix is inverted.
matrixInverted(t, frameNo, autoOrient) ==
    IF ~t.mStaticMatrix THEN t.mCachedMatrix ELSE computeMatrix(t, frameNo, autoOrient)

\* LOTTransformData::matrix
matrix(t, frameNo, autoOrient) ==
    IF t.mStaticMatrix THEN t.mCachedMatrix ELSE computeMatrix(t, frameNo, autoOrient)

\* LOTTransformData::cacheMatrix: mCachedMatrix = computeMatrix(0);
cacheMatrix(t) == [t EXCEPT !.mCachedMatrix = computeMatrix(t, 0, FALSE)]

\* ---- the transforms a file can hold: every property either constant or moving ----

Moving(v, step) == [f \in 1 .. MaxFrame + 1 |-> v + (f - 1) * step]
MovingPoint(p, step) == [f \in 1 .. MaxFrame + 1 |-> <<p[1] + (f - 1) * step, p[2] + (f - 1) * step>>]

PositionAnimatables == {Constant(<<10, 20>>), MovingPoint(<<10, 20>>, 5)}
ChannelAnimatables == {Constant(7), Moving(7, 1)}
RotationAnimatables == {Constant(90), Moving(0, 30)}
ScaleAnimatables == {Constant(<<100, 100>>), MovingPoint(<<50, 200>>, 50)}
AnchorAnimatables == {Constant(<<0, 0>>), MovingPoint(<<3, 4>>, 1)}
M3DValues == {NoM3D,
              <<[mRx |-> Constant(0), mRy |-> Constant(0), mRz |-> Constant(0)]>>,
              <<[mRx |-> Moving(0, 15), mRy |-> Constant(10), mRz |-> Moving(5, 5)]>>}

\* The parser's rule for mStaticMatrix: no animatable of the node changes.
AllStatic(t) ==
    /\ IsConstant(t.mPosition) /\ IsConstant(t.mRotation)
    /\ IsConstant(t.mScale) /\ IsConstant(t.mAnchor)
    /\ t.mSeparate => (IsConstant(t.mX) /\ IsConstant(t.mY))
    /\ ddd(t) => (IsConstant(t.m3D[1].mRx) /\ IsConstant(t.m3D[1].mRy) /\ IsConstant(t.m3D[1].mRz))

Transforms ==
    { t \in [mPosition : PositionAnimatables, mX : ChannelAnimatables,
             mY : ChannelAnimatables, mRotation : RotationAnimatables,
             mScale : ScaleAnimatables, mAnchor : AnchorAnimatables,
             m3D : M3DValues, mSeparate : BOOLEAN, mStaticMatrix : BOOLEAN,
             mCachedMatrix : {Identity}] :
        t.mStaticMatrix = AllStatic(t) }

NoXfCall == [op |-> "none", frameNo |-> 0, autoOrient |-> FALSE, multiplier |-> 0,
             result |-> Identity]

XfStart ==
    /\ transform = [mPosition |-> Constant(<<10, 20>>), mX |-> Constant(7), mY |-> Constant(7),
                    mRotation |-> Constant(90), mScale |-> Constant(<<100, 100>>),
                    mAnchor |-> Constant(<<0, 0>>), m3D |-> NoM3D, mSeparate |-> FALSE,
                    mStaticMatrix |-> TRUE, mCachedMatrix |-> Identity]
    /\ cached = FALSE
    /\ xfCall = NoXfCall

XfInit ==
    /\ transform \in Transforms
    /\ cached = FALSE
    /\ xfCall = NoXfCall

\* The parser caches the matrix of a static node before any frame is evaluated.
CacheMatrix ==
    /\ transform.mStaticMatrix
    /\ ~cached
    /\ transform' = cacheMatrix(transform)
    /\ cached' = TRUE
    /\ UNCHANGED <<xfCall, treeVars, gradVars, dashVars, drawVars, bezVars, posVars>>

\* A frame is evaluated: matrix(frameNo, autoOrient).
Matrix ==
    /\ transform.mStaticMatrix => cached
    /\ \E frameNo \in Frames, autoOrient \in BOOLEAN :
         xfCall' = [op |-> "matrix", frameNo |-> frameNo, autoOrient |-> autoOrient,
                    multiplier |-> 0,
                    result |-> matrix(transform, frameNo, autoOrient)]
    /\ UNCHANGED <<transform, cached, treeVars, gradVars, dashVars, drawVars, bezVars, posVars>>

\* A repeater asks for the matrix of one copy.
MatrixForRepeater ==
    /\ \E frameNo \in Frames, multiplier \in 0 .. MaxCopies :
         xfCall' = [op |-> "matrixForRepeater", frameNo |-> frameNo,
                    autoOrient |-> FALSE, multiplier |-> multiplier,
                    result |-> matrixForRepeater(transform, frameNo, multiplier)]
    /\ UNCHANGED <<transform, cached, treeVars, gradVars, dashVars, drawVars, bezVars, posVars>>

XfNext == CacheMatrix \/ Matrix \/ MatrixForRepeater

(***************************************************************************)
(* Drawables: dirty flags and asynchronous rasterisation                   *)
(*                                                                         *)
(* vdrawable.h holds the members, the flag values, setBrush and            *)
(* setFillRule. The bodies of setPath, setStrokeInfo, setDashInfo,         *)
(* preprocess and rle, and the rasteriser, follow the design document      *)
(* (sections 4.6 and 5).                                                   *)
(***************************************************************************)

\* Number of drawables rasterised concurrently for one frame.
NumDrawables == 2

\* enum class DirtyState
DirtyNone == 0
DirtyPath == 1
DirtyStroke == 16
DirtyBrush == 256
DirtyAll == DirtyPath + DirtyStroke + DirtyBrush

\* vFlag: the flags are distinct bits of an int.
HasFlag(flags, bit) == (flags \div bit) % 2 = 1
WithFlag(flags, bit) == IF HasFlag(flags, bit) THEN flags ELSE flags + bit

\* StrokeInfo's member initialisers.
DefaultStroke == [mDash |-> <<>>, width |-> 0, meterLimit |-> 10, enable |-> FALSE,
                  cap |-> "Flat", join |-> "Bevel"]

\* RleShare mRleFuture: no task, or the task launched by preprocess with the
\* geometry it took along and, once resolved, its spans.
NoSpans == <<>>
NoInput == [path |-> "", stroke |-> DefaultStroke, fillRule |-> "", clip |-> ""]
NoFuture == [state |-> "none", input |-> NoInput, spans |-> NoSpans]

\* A VDrawable as constructed.
NewDrawable == [mBrush |-> "", mPath |-> "", mRleFuture |-> NoFuture, mRle |-> NoSpans,
                mStroke |-> DefaultStroke, mFlag |-> DirtyAll, mFillRule |-> "Winding"]

\* void setBrush(const VBrush &brush) { mBrush = brush; }
setBrush(d, brush) == [d EXCEPT !.mBrush = brush]

\* void setFillRule(FillRule rule) { mFillRule = rule; }
setFillRule(d, rule) == [d EXCEPT !.mFillRule = rule]

\* setPath: store the path, mark Path.
setPath(d, path) == [d EXCEPT !.mPath = path, !.mFlag = WithFlag(@, DirtyPath)]

\* setStrokeInfo: store cap, join, miter limit and width, mark Stroke.
setStrokeInfo(d, cap, join, meterLimit, strokeWidth) ==
    [d EXCEPT !.mStroke = [@ EXCEPT !.enable = TRUE, !.cap = cap, !.join = join,
                                    !.meterLimit = meterLimit, !.width = strokeWidth],
              !.mFlag = WithFlag(@, DirtyStroke)]

\* setDashInfo: store the dash array, mark Stroke.
setDashInfo(d, array) ==
    [d EXCEPT !.mStroke = [@ EXCEPT !.mDash = array], !.mFlag = WithFlag(@, DirtyStroke)]

\* The rasteriser: the spans are a function of the path, its stroke expansion,
\* the fill rule and the clip, and of nothing else.
Raster(input) == <<input>>

\* What a task launched now for d would rasterise.
InputOf(d, clip) ==
    [path |-> d.mPath, stroke |-> d.mStroke, fillRule |-> d.mFillRule, clip |-> clip]

\* preprocess: with Path or Stroke dirty, launch the rasterisation of the
\* drawable's own geometry; the handle replaces the one held (a task still in
\* flight is abandoned). The flags stay until the result is committed.
NeedsRaster(d) == HasFlag(d.mFlag, DirtyPath) \/ HasFlag(d.mFlag, DirtyStroke)
preprocess(d, clip) ==
    [d EXCEPT !.mRleFuture = [state |-> "pending", input |-> InputOf(d, clip),
                              spans |-> NoSpans]]

\* A slip in the task: it rasterises the geometry of the lowest drawable in
\* flight (a buffer shared by the tasks) instead of its own.
taskSpansShared(id) ==
    LET inFlight == { e \in drawables : drawable[e].mRleFuture.state \in {"running", "ready"} }
        first == CHOOSE e \in inFlight : \A o \in inFlight : e <= o
    IN  Raster(drawable[first].mRleFuture.input)

\* The spans the task of drawable id produces: it reads only what it took along.
taskSpans(id) == Raster(drawable[id].mRleFuture.input)

\* rle() returns at once without a task in flight, and else when its own task
\* has resolved.
rleReturns(d) == d.mRleFuture.state \in {"none", "ready", "consumed"}

\* rle: take the spans of the resolved task, commit them (the dirty flags are
\* cleared) and return mRle; without a resolved task return the cached mRle.
rle(d) ==
    IF d.mRleFuture.state = "ready"
    THEN [d EXCEPT !.mRle = d.mRleFuture.spans, !.mFlag = DirtyNone,
                   !.mRleFuture = [@ EXCEPT !.state = "consumed"]]
    ELSE d

Paths == {"P1", "P2"}
Brushes == {"B1"}
Clips == {"Clip"}
DashArrays == {<<4, 2, 4>>}

NoDrawCall == [op |-> "none", id |-> 0]

DrawStart ==
    /\ drawables = {}
    /\ drawable = <<>>
    /\ drawCall = NoDrawCall

\* One drawable, as constructed.
DrawInit ==
    /\ drawables = {1}
    /\ drawable = [id \in {1} |-> NewDrawable]
    /\ drawCall = NoDrawCall

\* The drawables of an evaluated frame: every path set, some stroked.
RasterInit ==
    /\ drawables = 1 .. NumDrawables
    /\ drawable \in [1 .. NumDrawables ->
           { setPath(d, p) : p \in Paths,
                             d \in {NewDrawable, setStrokeInfo(NewDrawable, "Round", "Bevel", 10, 2)} }]
    /\ drawCall = NoDrawCall

Called(op, id) == drawCall' = [op |-> op, id |-> id]

SetPath ==
    /\ \E id \in drawables, path \in Paths :
         /\ drawable' = [drawable EXCEPT ![id] = setPath(@, path)]
         /\ Called("setPath", id)
    /\ UNCHANGED <<drawables, treeVars, gradVars, dashVars, xfVars, bezVars, posVars>>

SetBrush ==
    /\ \E id \in drawables, brush \in Brushes :
         /\ drawable' = [drawable EXCEPT ![id] = setBrush(@, brush)]
         /\ Called("setBrush", id)
    /\ UNCHANGED <<drawables, treeVars, gradVars, dashVars, xfVars, bezVars, posVars>>

SetFillRule ==
    /\ \E id \in drawables, rule \in {"Winding", "EvenOdd"} :
         /\ drawable' = [drawable EXCEPT ![id] = setFillRule(@, rule)]
         /\ Called("setFillRule", id)
    /\ UNCHANGED <<drawables, treeVars, gradVars, dashVars, xfVars, bezVars, posVars>>

SetStrokeInfo ==
    /\ \E id \in drawables :
         /\ drawable' = [drawable EXCEPT ![id] = setStrokeInfo(@, "Round", "Bevel", 10, 2)]
         /\ Called("setStrokeInfo", id)
    /\ UNCHANGED <<drawables, treeVars, gradVars, dashVars, xfVars, bezVars, posVars>>

SetDashInfo ==
    /\ \E id \in drawables, array \in DashArrays :
         /\ drawable' = [drawable EXCEPT ![id] = setDashInfo(@, array)]
         /\ Called("setDashInfo", id)
    /\ UNCHANGED <<drawables, treeVars, gradVars, dashVars, xfVars, bezVars, posVars>>

Preprocess ==
    /\ \E id \in drawables, clip \in Clips :
         /\ NeedsRaster(drawable[id])
         /\ drawable' = [drawable EXCEPT ![id] = preprocess(@, clip)]
         /\ Called("preprocess", id)
    /\ UNCHANGED <<drawables, treeVars, gradVars, dashVars, xfVars, bezVars, posVars>>

\* A worker thread takes up the task of a drawable.
RasterStart ==
    /\ \E id \in drawables :
         /\ drawable[id].mRleFuture.state = "pending"
         /\ drawable' = [drawable EXCEPT ![id].mRleFuture.state = "running"]
    /\ UNCHANGED <<drawables, drawCall, treeVars, gradVars, dashVars, xfVars, bezVars, posVars>>

\* The worker resolves the task with its spans.
RasterFinish ==
    /\ \E id \in drawables :
         /\ drawable[id].mRleFuture.state = "running"
         /\ drawable' = [drawable EXCEPT ![id].mRleFuture.state = "ready",
                                         ![id].mRleFuture.spans = taskSpans(id)]
    /\ UNCHANGED <<drawables, drawCall, treeVars, gradVars, dashVars, xfVars, bezVars, posVars>>

Rle ==
    /\ \E id \in drawables :
         /\ rleReturns(drawable[id])
         /\ drawable' = [drawable EXCEPT ![id] = rle(@)]
         /\ Called("rle", id)
    /\ UNCHANGED <<drawables, treeVars, gradVars, dashVars, xfVars, bezVars, posVars>>

DrawNext ==
    \/ SetPath \/ SetBrush \/ SetFillRule \/ SetStrokeInfo \/ SetDashInfo
    \/ Preprocess \/ RasterStart \/ RasterFinish \/ Rle

RasterNext == Preprocess \/ RasterStart \/ RasterFinish \/ Rle

(***************************************************************************)
(* Bezier subdivision                                                      *)
(*                                                                         *)
(* A coordinate and a parameter are exact fractions [n, d], d > 0, in      *)
(* lowest terms; float rounding is not modelled.                           *)
(***************************************************************************)

\* The parameters drawn are 0/TDen .. TDen/TDen.
TDen == 4
\* The x coordinates of the control points run over 0 .. MaxCoord, the y
\* coordinates over the two ends of that range.
MaxCoord == 2

FAdd(a, b) == Frac(a.n * b.d + b.n * a.d, a.d * b.d)
FSub(a, b) == Frac(a.n * b.d - b.n * a.d, a.d * b.d)
FMul(a, b) == Frac(a.n * b.n, a.d * b.d)

\* The members x1, y1 .. x4, y4.
VBezier(x1, y1, x2, y2, x3, y3, x4, y4) ==
    [x1 |-> x1, y1 |-> y1, x2 |-> x2, y2 |-> y2,
     x3 |-> x3, y3 |-> y3, x4 |-> x4, y4 |-> y4]

pt1(b) == <<b.x1, b.y1>>
pt4(b) == <<b.x4, b.y4>>

\* One axis of pointAt: a = c1 * m_t + c2 * t; ... ; a * m_t + b * t.
pointAtAxis(t, c1, c2, c3, c4) ==
    LET m_t == FSub(Float(1), t)
        a0 == FAdd(FMul(c1, m_t), FMul(c2, t))
        b0 == FAdd(FMul(c2, m_t), FMul(c3, t))
        c0 == FAdd(FMul(c3, m_t), FMul(c4, t))
        a1 == FAdd(FMul(a0, m_t), FMul(b0, t))
        b1 == FAdd(FMul(b0, m_t), FMul(c0, t))
    IN  FAdd(FMul(a1, m_t), FMul(b1, t))

pointAt(b, t) ==
    <<pointAtAxis(t, b.x1, b.x2, b.x3, b.x4), pointAtAxis(t, b.y1, b.y2, b.y3, b.y4)>>

\* p + t * (q - p)
Toward(p, q, t) == FAdd(p, FMul(t, FSub(q, p)))

\* One axis of parameterSplitLeft, assignment by assignment: l1 .. l4 are the
\* members written to left, r1 .. r3 those written to the receiver (its fourth
\* point is not written).
splitLeftAxis(t, c1, c2, c3, c4) ==
    LET l1 == c1
        l2 == Toward(c1, c2, t)
        hold == Toward(c2, c3, t)     \* left->x3 as temporary holding spot
        r3 == Toward(c3, c4, t)
        r2 == Toward(hold, r3, t)
        l3 == Toward(l2, hold, t)
        l4 == Toward(l3, r2, t)       \* left->x4 = x1 = ...
    IN  [l1 |-> l1, l2 |-> l2, l3 |-> l3, l4 |-> l4,
         r1 |-> l4, r2 |-> r2, r3 |-> r3, r4 |-> c4]

\* A slip in the last assignment: "left->x4 = ..." without "x1 =", so the
\* receiver keeps its first point.
parameterSplitLeftKeepsStart(b, t) ==
    LET x == splitLeftAxis(t, b.x1, b.x2, b.x3, b.x4)
        y == splitLeftAxis(t, b.y1, b.y2, b.y3, b.y4)
    IN  [left |-> VBezier(x.l1, y.l1, x.l2, y.l2, x.l3, y.l3, x.l4, y.l4),
         self |-> VBezier(b.x1, b.y1, x.r2, y.r2, x.r3, y.r3, x.r4, y.r4)]

\* VBezier::parameterSplitLeft(t, left): what it writes to left and what the
\* receiver becomes.
parameterSplitLeft(b, t) ==
    LET x == splitLeftAxis(t, b.x1, b.x2, b.x3, b.x4)
        y == splitLeftAxis(t, b.y1, b.y2, b.y3, b.y4)
    IN  [left |-> VBezier(x.l1, y.l1, x.l2, y.l2, x.l3, y.l3, x.l4, y.l4),
         self |-> VBezier(x.r1, y.r1, x.r2, y.r2, x.r3, y.r3, x.r4, y.r4)]

\* (p + q) * .5
Half(p, q) == FMul(FAdd(p, q), Frac(1, 2))

\* One axis of split: f1 .. f4 go to firstHalf, s1 .. s4 to secondHalf.
splitAxis(c1, c2, c3, c4) ==
    LET c == Half(c2, c3)
        f2 == Half(c1, c2)
        s3 == Half(c3, c4)
        f3 == Half(f2, c)
        s2 == Half(s3, c)
        f4 == Half(f3, s2)            \* firstHalf->x4 = secondHalf->x1 = ...
    IN  [f1 |-> c1, f2 |-> f2, f3 |-> f3, f4 |-> f4,
         s1 |-> f4, s2 |-> s2, s3 |-> s3, s4 |-> c4]

\* VBezier::split(firstHalf, secondHalf) const
split(b) ==
    LET x == splitAxis(b.x1, b.x2, b.x3, b.x4)
        y == splitAxis(b.y1, b.y2, b.y3, b.y4)
    IN  [firstHalf |-> VBezier(x.f1, y.f1, x.f2, y.f2, x.f3, y.f3, x.f4, y.f4),
         secondHalf |-> VBezier(x.s1, y.s1, x.s2, y.s2, x.s3, y.s3, x.s4, y.s4)]

XCoords == { Float(c) : c \in 0 .. MaxCoord }
YCoords == { Float(0), Float(MaxCoord) }
Parameters == { Frac(k, TDen) : k \in 0 .. TDen }

\* A VBezier nothing has been written to yet.
UnsetBezier == VBezier(NaN, NaN, NaN, NaN, NaN, NaN, NaN, NaN)

NoBezCall == [op |-> "none", t |-> Float(0), self |-> UnsetBezier]

BezStart ==
    /\ bezier = UnsetBezier
    /\ left = UnsetBezier
    /\ firstHalf = UnsetBezier
    /\ secondHalf = UnsetBezier
    /\ bezCall = NoBezCall

\* VBezier::fromPoints: a segment with control points on the grid.
BezInit ==
    /\ \E x1 \in XCoords, x2 \in XCoords, x3 \in XCoords, x4 \in XCoords,
          y1 \in YCoords, y2 \in YCoords, y3 \in YCoords, y4 \in YCoords :
         bezier = VBezier(x1, y1, x2, y2, x3, y3, x4, y4)
    /\ left = UnsetBezier
    /\ firstHalf = UnsetBezier
    /\ secondHalf = UnsetBezier
    /\ bezCall = NoBezCall

\* bezier.split(&firstHalf, &secondHalf)
Split ==
    /\ bezCall.op = "none"
    /\ LET r == split(bezier)
       IN  /\ firstHalf' = r.firstHalf
           /\ secondHalf' = r.secondHalf
    /\ bezCall' = [op |-> "split", t |-> Frac(1, 2), self |-> bezier]
    /\ UNCHANGED <<bezier, left, posVars, treeVars, gradVars, dashVars, xfVars, drawVars>>

\* bezier.parameterSplitLeft(t, &left)
ParameterSplitLeft ==
    /\ bezCall.op = "none"
    /\ \E t \in Parameters :
         /\ LET r == parameterSplitLeft(bezier, t)
            IN  /\ left' = r.left
                /\ bezier' = r.self
         /\ bezCall' = [op |-> "parameterSplitLeft", t |-> t, self |-> bezier]
    /\ UNCHANGED <<firstHalf, secondHalf, posVars, treeVars, gradVars, dashVars, xfVars, drawVars>>

BezNext == Split \/ ParameterSplitLeft

(***************************************************************************)
(* Position-to-frame mapping                                               *)
(***************************************************************************)

\* The positions drawn are 0/PosDen .. PosDen/PosDen.
PosDen == 4
\* The first frame runs over 0 .. MaxFirst, the last frame lies at most MaxSpan
\* frames behind it.
MaxFirst == 2
MaxSpan == 3
\* Number of frameAtPos calls followed.
MaxCalls == 2

\* std::round of a fraction that is not negative: halves go up.
round(x) == (2 * x.n + x.d) \div (2 * x.d)

\* The same with the fraction cut off instead of rounded.
frameAtPosTruncated(a, pos) ==
    LET x == FAdd(Float(a.firstFrame), FMul(pos, Float(a.lastFrame - a.firstFrame)))
    IN  x.n \div x.d

\* frame_number = lerp(start_frame, endframe, pos), rounded.
frameAtPos(a, pos) ==
    round(FAdd(Float(a.firstFrame), FMul(pos, Float(a.lastFrame - a.firstFrame))))

NormalizedPositions == { Frac(k, PosDen) : k \in 0 .. PosDen }

PosStart ==
    /\ animation = [firstFrame |-> 0, lastFrame |-> 0]
    /\ posCalls = <<>>

PosInit ==
    /\ \E first \in 0 .. MaxFirst, span \in 0 .. MaxSpan :
         animation = [firstFrame |-> first, lastFrame |-> first + span]
    /\ posCalls = <<>>

\* animation.frameAtPos(pos)
FrameAtPos ==
    /\ Len(posCalls) < MaxCalls
    /\ \E pos \in NormalizedPositions :
         posCalls' = Append(posCalls, [pos |-> pos, frame |-> frameAtPos(animation, pos)])
    /\ UNCHANGED <<animation, bezVars, treeVars, gradVars, dashVars, xfVars, drawVars>>

PosNext == FrameAtPos

(***************************************************************************)
(* Specifications                                                          *)
(***************************************************************************)

TreeInit == TreeStart /\ GradStart /\ DashStart /\ XfStart /\ DrawStart
    /\ BezStart /\ PosStart

SpecTree == TreeInit /\ [][TreeNext]_vars

GradientInit == GradInit /\ TreeStart /\ DashStart /\ XfStart /\ DrawStart
    /\ BezStart /\ PosStart

SpecGradient == GradientInit /\ [][GradNext]_vars

DashExpansionInit == DashInit /\ TreeStart /\ GradStart /\ XfStart /\ DrawStart
    /\ BezStart /\ PosStart

SpecDash == DashExpansionInit /\ [][DashNext]_vars

TransformInit == XfInit /\ TreeStart /\ GradStart /\ DashStart /\ DrawStart
    /\ BezStart /\ PosStart

SpecTransform == TransformInit /\ [][XfNext]_vars

DrawableInit == DrawInit /\ TreeStart /\ GradStart /\ DashStart /\ XfStart
    /\ BezStart /\ PosStart

SpecDrawable == DrawableInit /\ [][DrawNext]_vars

RasterFrameInit == RasterInit /\ TreeStart /\ GradStart /\ DashStart /\ XfStart
    /\ BezStart /\ PosStart

SpecRaster == RasterFrameInit /\ [][RasterNext]_vars

BezierInit == BezInit /\ TreeStart /\ GradStart /\ DashStart /\ XfStart /\ DrawStart
    /\ PosStart

SpecBezier == BezierInit /\ [][BezNext]_vars

FrameAtPosInit == PosInit /\ TreeStart /\ GradStart /\ DashStart /\ XfStart /\ DrawStart
    /\ BezStart

SpecFrameAtPos == FrameAtPosInit /\ [][PosNext]_vars

(***************************************************************************)
(* Properties of the repeater normalisation                                *)
(***************************************************************************)

Processed == treePhase = "processed"

Nodes == 1 .. Len(mType)

RECURSIVE ReachableFrom(_)
ReachableFrom(n) ==
    {n} \cup UNION { ReachableFrom(mChildren[n][k]) : k \in 1 .. Len(mChildren[n]) }

SeqRange(q) == { q[k] : k \in 1 .. Len(q) }

\* g was declared with six children [A, B, Repeater, C, D, Repeater].
DeclaredABRCDR(g) ==
    /\ g \in 1 .. Len(declared)
    /\ Len(declared[g]) = 6
    /\ \A k \in {1, 2, 4, 5} : mType[declared[g][k]] # Repeater
    /\ \A k \in {3, 6} : mType[declared[g][k]] = Repeater

\* The Shape Group a processed repeater owns.
OwnedGroup(r) == mChildren[r][1]

\* C1 as stated: after normalisation of [A, B, R, C, D, R2] none of A, B, C, D
\* is a direct child of the group, R's group holds [C, D] and R2's group
\* holds [A, B].
C1_AsStated ==
    \A g \in Nodes :
        (Processed /\ DeclaredABRCDR(g)) =>
            LET d == declared[g]
            IN  /\ SeqRange(mChildren[g]) \cap {d[1], d[2], d[4], d[5]} = {}
                /\ Len(mChildren[d[3]]) = 1
                /\ Len(mChildren[d[6]]) = 1
                /\ mChildren[OwnedGroup(d[3])] = <<d[4], d[5]>>
                /\ mChildren[OwnedGroup(d[6])] = <<d[1], d[2]>>

\* C1 as amended: after normalisation of [A, B, R, C, D, R2] the group keeps
\* only R2, R2's group holds [R, C, D] in declaration order and R's group
\* holds [A, B] in declaration order.
C1_RepeaterGroups ==
    \A g \in Nodes :
        (Processed /\ DeclaredABRCDR(g)) =>
            LET d == declared[g]
            IN  /\ mChildren[g] = <<d[6]>>
                /\ Len(mChildren[d[3]]) = 1
                /\ Len(mChildren[d[6]]) = 1
                /\ mType[OwnedGroup(d[3])] = ShapeGroup
                /\ mType[OwnedGroup(d[6])] = ShapeGroup
                /\ mChildren[OwnedGroup(d[6])] = <<d[3], d[4], d[5]>>
                /\ mChildren[OwnedGroup(d[3])] = <<d[1], d[2]>>

C1_Witness == Processed /\ DeclaredABRCDR(mRootLayer)

\* C2: after the pass every repeater reachable from the root layer has exactly
\* one child, and that child is a Shape Group.
C2_RepeaterOwnsOneGroup ==
    Processed =>
        \A r \in ReachableFrom(mRootLayer) :
            mType[r] = Repeater =>
                /\ Len(mChildren[r]) = 1
                /\ mType[mChildren[r][1]] = ShapeGroup

\* A processed tree with a repeater inside a declared sub-group and a repeater
\* that was moved into a group the pass created.
C2_Witness ==
    /\ Processed
    /\ \E r \in Nodes, g \in Nodes :
          /\ mType[r] = Repeater /\ g > Len(declared)
          /\ r \in SeqRange(mChildren[g])
    /\ \E r \in Nodes, g \in Nodes :
          /\ mType[r] = Repeater /\ g # mRootLayer /\ g <= Len(declared)
          /\ r \in SeqRange(mChildren[g])


(***************************************************************************)
(* Properties of the gradient stop merge                                   *)
(***************************************************************************)

Populated == gradPhase = "populated"

colorPoints == colorPointsOf(mGradient, mColorPoints)
opacityArraySize == opacityArraySizeOf(mGradient, colorPoints)
opacityPoints == opacityArraySize \div 2

ColorStops == 1 .. colorPoints
OpacityStops == 1 .. opacityPoints

ColorPos(k) == mGradient[4 * (k - 1) + 1]
ColorOf(k) == SubSeq(mGradient, 4 * (k - 1) + 2, 4 * (k - 1) + 4)
OpacityPos(m) == mGradient[4 * colorPoints + 2 * (m - 1) + 1]
OpacityVal(m) == mGradient[4 * colorPoints + 2 * (m - 1) + 2]

\* The buffer is colorPoints quadruples followed by opacity pairs.
PairRemainder == opacityArraySize >= 0 /\ opacityArraySize % 2 = 0

ColorAscending == \A k \in ColorStops : k + 1 \in ColorStops => ColorPos(k) <= ColorPos(k + 1)
OpacityAscending ==
    \A m \in OpacityStops : m + 1 \in OpacityStops => OpacityPos(m) <= OpacityPos(m + 1)
OpacityStrictlyAscending ==
    \A m \in OpacityStops : m + 1 \in OpacityStops => OpacityPos(m) < OpacityPos(m + 1)

InUnitRange(x) == 0 <= x /\ x <= Unit

StopPositions == [k \in 1 .. Len(stops) |-> stops[k].pos]

\* C3 as stated: populate emits exactly one stop per color stop, in color-stop
\* order: the output has colorPoints stops and the k-th has the k-th color
\* stop's position.
C3_AsStated ==
    (Populated /\ PairRemainder /\ ColorAscending) =>
        /\ Len(stops) = colorPoints
        /\ \A k \in ColorStops : stops[k].pos = ColorPos(k)

\* C3 as amended: without an opacity remainder populate emits exactly one stop
\* per color stop, in color-stop order, each at full opacity; with an opacity
\* remainder every emitted position is a color-stop or an opacity-stop position
\* and there are at most colorPoints + opacityPoints stops.
C3_StopsPerColorStop ==
    (Populated /\ PairRemainder /\ ColorAscending) =>
        /\ opacityArraySize = 0 =>
              /\ Len(stops) = colorPoints
              /\ \A k \in ColorStops :
                    stops[k] = Stop(ColorPos(k), ColorOf(k), Float(Unit))
        /\ Len(stops) <= colorPoints + opacityPoints
        /\ \A i \in 1 .. Len(stops) :
              \/ \E k \in ColorStops : stops[i].pos = ColorPos(k)
              \/ \E m \in OpacityStops : stops[i].pos = OpacityPos(m)

C3_Witness ==
    /\ Populated /\ opacityArraySize = 0 /\ colorPoints = MaxColors
    /\ ColorPos(1) < ColorPos(2)
    /\ Len(stops) = colorPoints

\* The opacity the claim gives the color stop at position x: the last opacity
\* stop's opacity beyond the last opacity stop, else the interpolation between
\* the bracketing consecutive opacity stops.
Beyond(x) == opacityPoints >= 1 /\ x > OpacityPos(opacityPoints)
Brackets(x) ==
    { m \in OpacityStops : m + 1 \in OpacityStops
                            /\ OpacityPos(m) <= x /\ x <= OpacityPos(m + 1) }
HasExpected(x) == Beyond(x) \/ Brackets(x) # {}
ExpectedOpacity(x) ==
    IF Beyond(x) THEN Float(OpacityVal(opacityPoints))
    ELSE LET m == CHOOSE b \in Brackets(x) : TRUE
         IN  interpolate(x, OpacityPos(m), OpacityVal(m), OpacityPos(m + 1), OpacityVal(m + 1))

\* C4: with an opacity array, every color stop whose position is bracketed by
\* two consecutive opacity stops, or lies beyond the last one, is emitted with
\* the interpolated (or the last) opacity; color stops that share position and
\* color each get their own stop.
C4_AsStated ==
    (Populated /\ PairRemainder /\ opacityPoints >= 1
       /\ ColorAscending /\ OpacityStrictlyAscending) =>
        \A k \in ColorStops :
            HasExpected(ColorPos(k)) =>
                Cardinality({ i \in 1 .. Len(stops) :
                    stops[i] = Stop(ColorPos(k), ColorOf(k), ExpectedOpacity(ColorPos(k))) })
                >= Cardinality({ k2 \in ColorStops :
                    ColorPos(k2) = ColorPos(k) /\ ColorOf(k2) = ColorOf(k) })

\* C5: for ascending color and opacity positions in [0,1] the emitted positions
\* are non-decreasing and lie in [0,1].
C5_StopsMonotone ==
    (Populated /\ PairRemainder /\ ColorAscending /\ OpacityAscending
       /\ (\A k \in ColorStops : InUnitRange(ColorPos(k)))
       /\ (\A m \in OpacityStops : InUnitRange(OpacityPos(m)))) =>
        /\ Ascending(StopPositions)
        /\ \A i \in 1 .. Len(stops) : InUnitRange(stops[i].pos)

\* Opacity stops were merged between two distinct color stops.
C5_Witness ==
    /\ Populated /\ PairRemainder /\ ColorAscending /\ OpacityAscending
    /\ colorPoints = 2 /\ opacityPoints >= 2
    /\ ColorPos(1) < ColorPos(2)
    /\ Len(stops) > colorPoints
    /\ \E i \in 1 .. Len(stops) - 1 : stops[i].pos < stops[i + 1].pos

(***************************************************************************)
(* Properties of the dash expansion                                        *)
(***************************************************************************)

\* The declared dash list evaluated at the frame of the last call: d[0..n-1].
DashCalled == dashCall.who # "none"
Declared(k) == value(mDash[k + 1], dashCall.frameNo)
Out(k) == dashArray[k + 1]

\* C6: getDashInfo of either stroke kind returns 0 for an empty list, the list
\* unchanged for an odd count n, and for an even count n the n+1 values
\* d[0..n-2], d[n-2] again (the fabricated gap), d[n-1].
C6_DashExpansion ==
    DashCalled =>
        LET n == Len(mDash)
        IN  /\ n = 0 => dashCall.ret = 0
            /\ n % 2 = 1 =>
                 /\ dashCall.ret = n
                 /\ \A k \in 0 .. n - 1 : Out(k) = Declared(k)
            /\ (n > 0 /\ n % 2 = 0) =>
                 /\ dashCall.ret = n + 1
                 /\ \A k \in 0 .. n - 2 : Out(k) = Declared(k)
                 /\ Out(n - 1) = Declared(n - 2)
                 /\ Out(n) = Declared(n - 1)

\* An even list whose two entries differ at the frame asked for.
C6_Witness ==
    /\ dashCall.who = "LOTStrokeData"
    /\ Len(mDash) = 2 /\ dashCall.ret = 3
    /\ Declared(0) # Declared(1)
    /\ ~IsConstant(mDash[1])

(***************************************************************************)
(* Properties of the transform evaluation                                  *)
(***************************************************************************)

RepeaterCalled == xfCall.op = "matrixForRepeater"
MatrixCalled == xfCall.op = "matrix"

\* The chain translate(position * k), rotate(rotation * k), scale(factor ^ k),
\* translate(anchorTerm): no auto-orientation, no 3-D rotation.
RepeaterChain(anchorTerm) ==
    LET f == xfCall.frameNo
        k == xfCall.multiplier
        s == value(transform.mScale, f)
    IN  << [op |-> "translate", by |-> PointTimes(value(transform.mPosition, f), k), axis |-> "-"],
           [op |-> "rotate", by |-> value(transform.mRotation, f) * k, axis |-> "Z"],
           [op |-> "scale", by |-> <<Frac(IntPow(s[1], k), IntPow(100, k)),
                                     Frac(IntPow(s[2], k), IntPow(100, k))>>, axis |-> "-"],
           [op |-> "translate", by |-> anchorTerm, axis |-> "-"] >>

\* C7 as stated: matrixForRepeater(frame, k) raises scale/100 to the power k
\* and applies position, rotation and anchor each multiplied by k, without
\* auto-orientation or 3-D rotation.
C7_AsStated ==
    RepeaterCalled =>
        xfCall.result =
            RepeaterChain(PointTimes(value(transform.mAnchor, xfCall.frameNo), xfCall.multiplier))

\* C7 as amended: matrixForRepeater(frame, k) raises scale/100 to the power k,
\* applies position and rotation each multiplied by k, and translates by the
\* anchor value itself (not multiplied by k), without auto-orientation or 3-D
\* rotation.
C7_RepeaterMatrix ==
    RepeaterCalled =>
        xfCall.result = RepeaterChain(value(transform.mAnchor, xfCall.frameNo))

\* The second copy of a 3-D node with a moving anchor and a non-uniform scale.
C7_Witness ==
    /\ RepeaterCalled /\ xfCall.multiplier = 2 /\ xfCall.frameNo = 1
    /\ ddd(transform)
    /\ value(transform.mAnchor, 1) # <<0, 0>>
    /\ value(transform.mScale, 1) = <<100, 250>>

\* The keyframed values computeMatrix reads at a frame.
KeyframedValues(t, f) ==
    << IF t.mSeparate THEN <<value(t.mX, f), value(t.mY, f)>> ELSE value(t.mPosition, f),
       value(t.mRotation, f), value(t.mScale, f), value(t.mAnchor, f),
       IF ddd(t) THEN <<value(t.m3D[1].mRx, f), value(t.m3D[1].mRy, f), value(t.m3D[1].mRz, f)>>
       ELSE <<>> >>

\* C8, in every state: a static node returns the matrix cached from frame 0,
\* whatever the frame and autoOrient; a non-static node returns
\* computeMatrix(frameNo, autoOrient).
C8_MatrixReturned ==
    MatrixCalled =>
        IF transform.mStaticMatrix
        THEN /\ cached
             /\ xfCall.result = transform.mCachedMatrix
             /\ xfCall.result = computeMatrix(transform, 0, FALSE)
        ELSE xfCall.result = computeMatrix(transform, xfCall.frameNo, xfCall.autoOrient)

\* C8, from one request to the next: a static node returns the same matrix; a
\* non-static node returns a different matrix at a frame whose keyframed values
\* differ (autoOrient being the same).
C8_NextRequest ==
    (MatrixCalled /\ xfCall'.op = "matrix") =>
        IF transform.mStaticMatrix
        THEN xfCall'.result = xfCall.result
        ELSE (/\ xfCall'.autoOrient = xfCall.autoOrient
              /\ KeyframedValues(transform, xfCall'.frameNo)
                   # KeyframedValues(transform, xfCall.frameNo))
             => xfCall'.result # xfCall.result

FlagAfter(op, bit) ==
    drawCall.op = op => HasFlag(drawable[drawCall.id].mFlag, bit)

\* C9: right after setPath the Path flag is set, after setStrokeInfo or
\* setDashInfo the Stroke flag, and after setBrush the Brush flag, whatever the
\* flags were before the call.
C9_AsStated ==
    /\ FlagAfter("setPath", DirtyPath)
    /\ FlagAfter("setStrokeInfo", DirtyStroke)
    /\ FlagAfter("setDashInfo", DirtyStroke)
    /\ FlagAfter("setBrush", DirtyBrush)

Joined(id) == drawable[id].mRleFuture.state = "consumed"

\* The spans sequential synchronous rendering of the frame gives drawable id.
SyncSpans(id) == Raster(InputOf(drawable[id], CHOOSE clip \in Clips : TRUE))

C11_SplitJoins ==
    /\ bezCall.op = "split" =>
         /\ bezier = bezCall.self
         /\ pt1(firstHalf) = pt1(bezCall.self)
         /\ pt4(secondHalf) = pt4(bezCall.self)
         /\ pt4(firstHalf) = pt1(secondHalf)
         /\ pt4(firstHalf) = pointAt(bezCall.self, Frac(1, 2))
    /\ bezCall.op = "parameterSplitLeft" =>
         /\ pt1(left) = pt1(bezCall.self)
         /\ pt4(bezier) = pt4(bezCall.self)
         /\ pt4(left) = pt1(bezier)
         /\ pt4(left) = pointAt(bezCall.self, bezCall.t)

\* A split at a parameter strictly inside (0, 1) other than 1/2 whose split
\* point is none of the segment's end points.
C11_Witness ==
    /\ bezCall.op = "parameterSplitLeft"
    /\ bezCall.t \notin {Float(0), Frac(1, 2), Float(1)}
    /\ pt4(left) \notin {pt1(bezCall.self), pt4(bezCall.self)}
    /\ pt1(bezCall.self) # pt4(bezCall.self)

(***************************************************************************)
(* Properties of the position-to-frame mapping                             *)
(***************************************************************************)

\* The frame is an integer nearest to first + pos * (last - first).
Nearest(call) ==
    LET x == FAdd(Float(animation.firstFrame),
                  FMul(call.pos, Float(animation.lastFrame - animation.firstFrame)))
    IN  2 * Abs(call.frame * x.d - x.n) <= x.d

\* C12: every frameAtPos result is the rounded linear interpolation and lies in
\* [firstFrame, lastFrame]; position 0 gives the first frame, position 1 the
\* last; of two calls the one with the larger position gives no smaller frame.
C12_FrameAtPos ==
    /\ \A k \in 1 .. Len(posCalls) :
         LET call == posCalls[k]
         IN  /\ Nearest(call)
             /\ animation.firstFrame <= call.frame
             /\ call.frame <= animation.lastFrame
             /\ call.pos = Float(0) => call.frame = animation.firstFrame
             /\ call.pos = Float(1) => call.frame = animation.lastFrame
    /\ \A k \in 1 .. Len(posCalls), m \in 1 .. Len(posCalls) :
         (posCalls[k].pos.n * posCalls[m].pos.d <= posCalls[m].pos.n * posCalls[k].pos.d)
             => posCalls[k].frame <= posCalls[m].frame

\* Two calls at different positions strictly inside (0, 1) whose interpolation
\* is not a whole frame and which give different frames.
C12_Witness ==
    /\ Len(posCalls) = 2
    /\ posCalls[1].pos \notin {Float(0), Float(1)}
    /\ posCalls[2].pos \notin {Float(0), Float(1)}
    /\ posCalls[1].frame < posCalls[2].frame
    /\ FMul(posCalls[1].pos, Float(animation.lastFrame - animation.firstFrame)).d # 1


(***************************************************************************)
(* Properties of the repeater normalisation: conservation of the nodes     *)
(***************************************************************************)

\* The list index of the last repeater declared in g, 0 without one.
LastRepeater(g) ==
    LET at == { k \in 1 .. Len(declared[g]) : mType[declared[g][k]] = Repeater }
    IN  IF at = {} THEN 0 ELSE CHOOSE k \in at : \A o \in at : o <= k

\* The children of x with those its leading repeater took put back in front.
RECURSIVE Unnest(_)
Unnest(x) ==
    LET list == mChildren[x]
    IN  IF list # <<>> /\ mType[list[1]] = Repeater /\ mChildren[list[1]] # <<>>
        THEN Unnest(OwnedGroup(list[1])) \o list
        ELSE list

\* The places of the tree that hold node n.
Occurrences(n) ==
    { <<parent, k>> \in Nodes \X (1 .. Len(mType)) :
        k <= Len(mChildren[parent]) /\ mChildren[parent][k] = n }

\* C13: after the pass a declared group keeps its last repeater and the
\* children declared after it, in order; the children declared before that
\* repeater are, in order, in the fresh Shape Group the repeater owns (an
\* earlier repeater among them having taken its own share the same way); and
\* every node is reachable from the root layer and held at exactly one place.
C13_OnlyReparented ==
    Processed =>
        /\ \A g \in 1 .. Len(declared) :
             mType[g] \in {Layer, ShapeGroup} =>
                 LET d == declared[g]
                     i == LastRepeater(g)
                 IN  IF i = 0
                     THEN mChildren[g] = d
                     ELSE /\ mChildren[g] = SubSeq(d, i, Len(d))
                          /\ Len(mChildren[d[i]]) = 1
                          /\ OwnedGroup(d[i]) > Len(declared)
                          /\ mType[OwnedGroup(d[i])] = ShapeGroup
                          /\ Unnest(OwnedGroup(d[i])) = SubSeq(d, 1, i - 1)
        /\ \A n \in Nodes :
             Cardinality(Occurrences(n)) = IF n = mRootLayer THEN 0 ELSE 1
        /\ ReachableFrom(mRootLayer) = Nodes

\* The root layer was declared as [A, R, B, R2, C]: children before, between and
\* after two repeaters.
C13_Witness ==
    /\ Processed
    /\ Len(declared[mRootLayer]) = 5
    /\ \A k \in {2, 4} : mType[declared[mRootLayer][k]] = Repeater
    /\ \A k \in {1, 3, 5} : mType[declared[mRootLayer][k]] # Repeater


(***************************************************************************)
(* Properties of the gradient stop merge: reads of the opacity stops       *)
(***************************************************************************)

InOpacityArray(k) == 0 <= k /\ k < opacityArraySize

\* C14: with at least one color stop and at least one opacity pair, every read
\* opacityPtr[k] that populate makes has 0 <= k < opacityArraySize.
C14_AsStated ==
    (Populated /\ colorPoints >= 1 /\ opacityPoints >= 1) =>
        \A k \in opacityReads : InOpacityArray(k)

====
